---- MODULE Spec2Model ----
(***************************************************************************)
(* Shift Leader Dashboard (src/app.py): the task-status parser, the        *)
(* completion aggregator, the trend analyses of the third tab and the      *)
(* script's load / render / refresh cycle.                                 *)
(*                                                                         *)
(* A Python string is a sequence of one-character strings.  An optional    *)
(* value (Python None or a value) is a sequence of length 0 or 1.          *)
(***************************************************************************)
EXTENDS Integers, Sequences, FiniteSets, TLC

VARIABLES
    value,          \* parse_task_status: the raw cell value passed in
    result,         \* parse_task_status: the tuple returned, once it has run
    row,            \* calculate_completion_stats: the submission (field -> raw value)
    task_list,      \* calculate_completion_stats: the task list passed in
    orig_task_list, \* the task list as first given, before any reordering
    stats,          \* calculate_completion_stats: the dict returned by the last call
    baseline,       \* the dict returned by the first call, on orig_task_list
    sheet,          \* the spreadsheet read by load_data: header and records
    cache,          \* st.cache_data's entry for load_data()
    df,             \* the DataFrame of the current script run
    phase,          \* reload cycle: Idle, Fetching, Loaded, Ready, Error
    clicked,        \* the current run was triggered by the Refresh Now button
    view            \* what the last script run rendered

vars == <<value, result, row, task_list, orig_task_list, stats, baseline,
          sheet, cache, df, phase, clicked, view>>

---------------------------------------------------------------------------
(* Optional values *)

None == << >>

Some(x) == <<x>>

---------------------------------------------------------------------------
(* Strings *)

LowerCase == <<"a","b","c","d","e","f","g","h","i","j","k","l","m",
               "n","o","p","q","r","s","t","u","v","w","x","y","z">>

UpperCase == <<"A","B","C","D","E","F","G","H","I","J","K","L","M",
               "N","O","P","Q","R","S","T","U","V","W","X","Y","Z">>

\* str.upper() on the lower-case letters
ToUpper ==
    [c \in {LowerCase[i] : i \in 1..26} |->
        UpperCase[CHOOSE i \in 1..26 : LowerCase[i] = c]]

\* str.upper() on one character
UpperChar(c) == IF c \in DOMAIN ToUpper THEN ToUpper[c] ELSE c

\* str.upper()
Upper(s) == [i \in 1..Len(s) |-> UpperChar(s[i])]

\* the characters str.strip() removes and the regex class \s matches
Whitespace == {" ", "\n", "\t"}

\* str.startswith(prefix)
StartsWith(s, prefix) ==
    /\ Len(s) >= Len(prefix)
    /\ SubSeq(s, 1, Len(prefix)) = prefix

\* the number of whitespace characters s begins with, counted from position p
RECURSIVE LeadingBlanks(_, _)
LeadingBlanks(s, p) ==
    IF p <= Len(s) /\ s[p] \in Whitespace THEN 1 + LeadingBlanks(s, p + 1) ELSE 0

\* the number of whitespace characters s ends with, counted back from position p
RECURSIVE TrailingBlanks(_, _)
TrailingBlanks(s, p) ==
    IF p >= 1 /\ s[p] \in Whitespace THEN 1 + TrailingBlanks(s, p - 1) ELSE 0

\* str.strip(): s without its leading and trailing whitespace
Strip(s) ==
    LET lead == LeadingBlanks(s, 1)
    IN  IF lead = Len(s) THEN << >>
        ELSE SubSeq(s, lead + 1, Len(s) - TrailingBlanks(s, Len(s)))

YES == <<"Y","E","S">>

NO == <<"N","O">>

N_A == <<"N","/","A">>

NA == <<"N","A">>

---------------------------------------------------------------------------
(* parse_task_status *)

\* The length of the longest run of characters of `class` in s from position p.
RECURSIVE RunLength(_, _, _)
RunLength(s, p, class) ==
    IF p <= Len(s) /\ s[p] \in class THEN 1 + RunLength(s, p + 1, class) ELSE 0

\* (.+) can start at position p: a character other than a line break is there
CanStartGroup(s, p) == p <= Len(s) /\ s[p] # "\n"

\* The second \s* from position q, having taken b characters, then (.+): the
\* position where the group starts, 0 when (.+) matches for no b' <= b.
RECURSIVE AfterSecondBlanks(_, _, _)
AfterSecondBlanks(s, q, b) ==
    IF b < 0 THEN 0
    ELSE IF CanStartGroup(s, q + b) THEN q + b
    ELSE AfterSecondBlanks(s, q, b - 1)

\* -? at position q, then the rest: the hyphen is taken first, and given back
\* when the rest does not match after it
AfterHyphen(s, q) ==
    LET without == AfterSecondBlanks(s, q, RunLength(s, q, Whitespace))
    IN  IF q <= Len(s) /\ s[q] = "-"
        THEN LET with == AfterSecondBlanks(s, q + 1, RunLength(s, q + 1, Whitespace))
             IN  IF with # 0 THEN with ELSE without
        ELSE without

\* The first \s* after "YES", having taken a characters, then the rest
RECURSIVE AfterFirstBlanks(_, _)
AfterFirstBlanks(s, a) ==
    IF a < 0 THEN 0
    ELSE LET p == AfterHyphen(s, 4 + a)
         IN  IF p # 0 THEN p ELSE AfterFirstBlanks(s, a - 1)

\* re.match(r'YES\s*-?\s*(.+)', s, re.IGNORECASE).group(1), or None when there is
\* no match.  The matcher backtracks: each of \s*, -? and \s* first takes as
\* much as it can and gives characters back, the last one first, while (.+)
\* (one or more characters other than a line break, as many as there are)
\* cannot match.
MatchYesGroup(s) ==
    IF ~StartsWith(Upper(s), YES) THEN None
    ELSE
    LET p == AfterFirstBlanks(s, RunLength(s, 4, Whitespace))
    IN  IF p = 0 THEN None
        ELSE Some(SubSeq(s, p, p + RunLength(s, p, {s[i] : i \in 1..Len(s)} \ {"\n"}) - 1))

\* parse_task_status(value): <<status, staff_name>>.  pd.isna(value) and
\* `value is None` hold of None, value == '' of the empty string.
parse_task_status_unrecognised_missing(v) ==
    IF v = None \/ v = Some(<< >>) THEN <<"missing", None>>
    ELSE
    LET s == Strip(v[1])
        upper == Upper(s)
    IN  IF StartsWith(upper, YES) THEN
            LET match == MatchYesGroup(s)
            IN  <<"completed",
                  IF match # None /\ Strip(match[1]) # << >>
                  THEN Some(Strip(match[1])) ELSE None>>
        ELSE IF StartsWith(upper, NO) THEN <<"missed", None>>
        ELSE IF upper = N_A \/ upper = NA THEN <<"na", None>>
        ELSE <<"missing", None>>

parse_task_status_na_prefix(v) ==
    IF v = None \/ v = Some(<< >>) THEN <<"missing", None>>
    ELSE
    LET s == Strip(v[1])
        upper == Upper(s)
    IN  IF StartsWith(upper, YES) THEN
            LET match == MatchYesGroup(s)
            IN  <<"completed",
                  IF match # None /\ Strip(match[1]) # << >>
                  THEN Some(Strip(match[1])) ELSE None>>
        ELSE IF StartsWith(upper, NO) THEN <<"missed", None>>
        ELSE IF StartsWith(upper, N_A) \/ StartsWith(upper, NA)
             THEN <<"na", None>>
        ELSE IF s # << >> THEN <<"completed", Some(s)>> ELSE <<"missing", None>>

parse_task_status(v) ==
    IF v = None \/ v = Some(<< >>) THEN <<"missing", None>>
    ELSE
    LET s == Strip(v[1])
        upper == Upper(s)
    IN  IF StartsWith(upper, YES) THEN
            LET match == MatchYesGroup(s)
            IN  <<"completed",
                  IF match # None /\ Strip(match[1]) # << >>
                  THEN Some(Strip(match[1])) ELSE None>>
        ELSE IF StartsWith(upper, NO) THEN <<"missed", None>>
        ELSE IF upper = N_A \/ upper = NA THEN <<"na", None>>
        ELSE IF s # << >> THEN <<"completed", Some(s)>> ELSE <<"missing", None>>

---------------------------------------------------------------------------
(* calculate_completion_stats *)

\* a number kept exact: Python computes the rates in floating point
Ratio(n, d) == [num |-> n, den |-> d]

ZeroTally == [completed |-> 0, missed |-> 0, na |-> 0, missing |-> 0]

\* the counter a status adds to
Counter(status) ==
    IF status = "completed" THEN "completed"
    ELSE IF status = "missed" THEN "missed"
    ELSE IF status = "na" THEN "na"
    ELSE "missing"

\* the loop `for task in task_list`, from its i-th task on
RECURSIVE Tally(_, _, _, _)
Tally(r, tasks, i, acc) ==
    IF i > Len(tasks) THEN acc
    ELSE IF tasks[i] \in DOMAIN r
         THEN Tally(r, tasks, i + 1,
                    [acc EXCEPT ![Counter(parse_task_status(r[tasks[i]])[1])] = @ + 1])
         ELSE Tally(r, tasks, i + 1, acc)

\* the loop with an absent task counted as missing
RECURSIVE TallyAbsentMissing(_, _, _, _)
TallyAbsentMissing(r, tasks, i, acc) ==
    IF i > Len(tasks) THEN acc
    ELSE IF tasks[i] \in DOMAIN r
         THEN TallyAbsentMissing(r, tasks, i + 1,
                    [acc EXCEPT ![Counter(parse_task_status(r[tasks[i]])[1])] = @ + 1])
         ELSE TallyAbsentMissing(r, tasks, i + 1, [acc EXCEPT !.missing = @ + 1])

\* the loop left at the first absent task
RECURSIVE TallyBreak(_, _, _, _)
TallyBreak(r, tasks, i, acc) ==
    IF i > Len(tasks) THEN acc
    ELSE IF tasks[i] \in DOMAIN r
         THEN TallyBreak(r, tasks, i + 1,
                    [acc EXCEPT ![Counter(parse_task_status(r[tasks[i]])[1])] = @ + 1])
         ELSE acc

\* the dict returned, from the counters
StatsOf(t, applicable) ==
    [completed |-> t.completed, missed |-> t.missed, na |-> t.na,
     missing |-> t.missing, applicable |-> applicable,
     rate |-> IF applicable > 0 THEN Ratio(t.completed * 100, applicable)
              ELSE Ratio(0, 1)]

calculate_completion_stats_na_applicable(r, tasks) ==
    LET t == Tally(r, tasks, 1, ZeroTally)
    IN  StatsOf(t, t.completed + t.missed + t.missing + t.na)

calculate_completion_stats_absent_missing(r, tasks) ==
    LET t == TallyAbsentMissing(r, tasks, 1, ZeroTally)
    IN  StatsOf(t, t.completed + t.missed + t.missing)

calculate_completion_stats_break(r, tasks) ==
    LET t == TallyBreak(r, tasks, 1, ZeroTally)
    IN  StatsOf(t, t.completed + t.missed + t.missing)

calculate_completion_stats(r, tasks) ==
    LET t == Tally(r, tasks, 1, ZeroTally)
    IN  StatsOf(t, t.completed + t.missed + t.missing)

---------------------------------------------------------------------------
(* The task registry and the dataset *)

GENERAL_TASKS == <<
    "Meds Given",
    "Unannounced Rounds Every 2 Hours in Apricot",
    "Conduct Fire Drill If Scheduled",
    "Youth Taken to Appointments (Logbook / Whiteboard)",
    "Shift Report Completed in Apricot",
    "Informational or Behavioral Notes Submitted",
    "Verbal Review to Next Shift" >>

KITCHEN_TASKS == <<
    "Prepare Breakfast",
    "Prepare Lunch",
    "Prepare DInner",
    "Clean Kitchen",
    "Defrost Food",
    "Date Food",
    "Dispose of Any Expired Food",
    "Fill Out Refrigerator Temperature Log",
    "Take Out Trash" >>

FACILITY_TASKS == <<
    "Clean and Tidy Common Area/Dining Room",
    "Clean and Tidy 2nd Floor Lounge",
    "Check & Restock House Paper Products / Soap, etc.",
    "Bring In and Put Away Deliveries",
    "All Youth Chores Completed",
    "Tidy Youth Worker Office Area",
    "Seasonal Snow Clean Up Assistance",
    "Seasonal Water Plants and Clean Up Outside Area" >>

ALL_TASKS == GENERAL_TASKS \o KITCHEN_TASKS \o FACILITY_TASKS

SUBMISSION_DATE == "Submission Date"

REVIEWED_COL == "Did You Review the Last Shift Checklist at the Beginning of your Shift?"

Range(seq) == {seq[i] : i \in 1..Len(seq)}

\* A record of the sheet is kept as its submission time and the checklist form
\* that was sent: a form gives one raw value to all the tasks of a section, and
\* one to the review question.
Cell(form, field) ==
    IF field \in Range(GENERAL_TASKS) THEN form.general
    ELSE IF field \in Range(KITCHEN_TASKS) THEN form.kitchen
    ELSE IF field \in Range(FACILITY_TASKS) THEN form.facility
    ELSE form.review

\* row[field] of a record of the DataFrame
Field(rec, field) == Cell(rec.form, field)

\* a record as the row (a pandas Series) handed to calculate_completion_stats:
\* `task in row` holds of the DataFrame's columns
RowOf(rec, columns) == [f \in columns \ {SUBMISSION_DATE} |-> Field(rec, f)]

\* the DataFrame built from no record at all
EmptyFrame == [columns |-> {}, rows |-> << >>]

\* df.sort_values('Submission Date', ascending=False): rows[i] goes in after the
\* rows already placed whose date is not earlier
RECURSIVE SortByDateDesc(_, _, _)
SortByDateDesc(rows, i, acc) ==
    IF i > Len(rows) THEN acc
    ELSE LET k == Cardinality({j \in 1..Len(acc) : acc[j].date >= rows[i].date})
         IN  SortByDateDesc(rows, i + 1,
                 SubSeq(acc, 1, k) \o <<rows[i]>> \o SubSeq(acc, k + 1, Len(acc)))

\* load_data(), when the sheet can be read
load_data(sh) ==
    IF Len(sh.records) > 0 /\ SUBMISSION_DATE \in sh.header
    THEN [columns |-> sh.header, rows |-> SortByDateDesc(sh.records, 1, << >>)]
    ELSE IF Len(sh.records) > 0 THEN [columns |-> sh.header, rows |-> sh.records]
    ELSE EmptyFrame

---------------------------------------------------------------------------
(* Tab 1: the last completed shift *)

\* the loop that collects the last shift's missed tasks, from ALL_TASKS[k] on
RECURSIVE missed_tasks(_, _, _)
missed_tasks(d, k, acc) ==
    IF k > Len(ALL_TASKS) THEN acc
    ELSE IF ALL_TASKS[k] \in d.columns
            /\ parse_task_status(Field(d.rows[1], ALL_TASKS[k]))[1] = "missed"
         THEN missed_tasks(d, k + 1, Append(acc, ALL_TASKS[k]))
         ELSE missed_tasks(d, k + 1, acc)

---------------------------------------------------------------------------
(* Tab 3: trends and issues *)

MinTrendRows == 2

TopMisses == 10

TopStaff == 10

\* df[task].apply(lambda x: 1 if parse_task_status(x)[0] == 'missed' else 0).sum(),
\* from row i on
RECURSIVE SumMisses(_, _, _)
SumMisses(d, task, i) ==
    IF i > Len(d.rows) THEN 0
    ELSE (IF parse_task_status(Field(d.rows[i], task))[1] = "missed" THEN 1 ELSE 0)
         + SumMisses(d, task, i + 1)

\* the dict task_misses, as its items in insertion order, from ALL_TASKS[k] on
RECURSIVE task_misses(_, _, _)
task_misses(d, k, acc) ==
    IF k > Len(ALL_TASKS) THEN acc
    ELSE IF ALL_TASKS[k] \in d.columns /\ SumMisses(d, ALL_TASKS[k], 1) > 0
         THEN task_misses(d, k + 1,
                  Append(acc, <<ALL_TASKS[k], SumMisses(d, ALL_TASKS[k], 1)>>))
         ELSE task_misses(d, k + 1, acc)

\* sorted(items, key=lambda x: x[1], reverse=True): a stable sort, so items[i]
\* goes in after the items already placed whose count is not smaller
RECURSIVE SortedByCountDesc(_, _, _)
SortedByCountDesc(items, i, acc) ==
    IF i > Len(items) THEN acc
    ELSE LET k == Cardinality({j \in 1..Len(acc) : acc[j][2] >= items[i][2]})
         IN  SortedByCountDesc(items, i + 1,
                 SubSeq(acc, 1, k) \o <<items[i]>> \o SubSeq(acc, k + 1, Len(acc)))

\* the sort with items of equal count in the reverse of their given order
RECURSIVE SortedByCountDescUnstable(_, _, _)
SortedByCountDescUnstable(items, i, acc) ==
    IF i > Len(items) THEN acc
    ELSE LET k == Cardinality({j \in 1..Len(acc) : acc[j][2] > items[i][2]})
         IN  SortedByCountDescUnstable(items, i + 1,
                 SubSeq(acc, 1, k) \o <<items[i]>> \o SubSeq(acc, k + 1, Len(acc)))

\* seq[:n]
FirstN(seq, n) == SubSeq(seq, 1, IF Len(seq) < n THEN Len(seq) ELSE n)

sorted_misses_unstable(d) ==
    FirstN(SortedByCountDescUnstable(task_misses(d, 1, << >>), 1, << >>), TopMisses)

\* sorted_misses
sorted_misses(d) ==
    FirstN(SortedByCountDesc(task_misses(d, 1, << >>), 1, << >>), TopMisses)

\* staff_counts[name] = staff_counts.get(name, 0) + 1, on the items in insertion order
AddOne(counts, name) ==
    IF \E i \in 1..Len(counts) : counts[i][1] = name
    THEN [i \in 1..Len(counts) |->
            IF counts[i][1] = name THEN <<name, counts[i][2] + 1>> ELSE counts[i]]
    ELSE Append(counts, <<name, 1>>)

\* the tokens that are no staff name
NotAName == {YES, NO, N_A}

\* the body of the two loops for one task and one row
CountStaff(counts, cell) ==
    LET parsed == parse_task_status(cell)
    IN  IF parsed[1] = "completed" /\ parsed[2] # None
        THEN LET staff_clean == Strip(parsed[2][1])
             IN  IF staff_clean # << >> /\ Upper(staff_clean) \notin NotAName
                 THEN AddOne(counts, staff_clean)
                 ELSE counts
        ELSE counts

\* the body without the check for the tokens
CountStaffUnfiltered(counts, cell) ==
    LET parsed == parse_task_status(cell)
    IN  IF parsed[1] = "completed" /\ parsed[2] # None
        THEN LET staff_clean == Strip(parsed[2][1])
             IN  IF staff_clean # << >> THEN AddOne(counts, staff_clean) ELSE counts
        ELSE counts

\* the inner loop `for _, row in df.iterrows()` for one task, from row i on
RECURSIVE StaffRowLoop(_, _, _, _)
StaffRowLoop(d, task, i, counts) ==
    IF i > Len(d.rows) THEN counts
    ELSE StaffRowLoop(d, task, i + 1, CountStaff(counts, Field(d.rows[i], task)))

RECURSIVE StaffRowLoopUnfiltered(_, _, _, _)
StaffRowLoopUnfiltered(d, task, i, counts) ==
    IF i > Len(d.rows) THEN counts
    ELSE StaffRowLoopUnfiltered(d, task, i + 1,
                                CountStaffUnfiltered(counts, Field(d.rows[i], task)))

\* the outer loop `for task in ALL_TASKS`, from ALL_TASKS[k] on; the dict
\* staff_counts as its items in insertion order.  The dict after a task is
\* worked out (compared with the one before) ahead of the next task.
RECURSIVE StaffLoop(_, _, _)
StaffLoop(d, k, counts) ==
    IF k > Len(ALL_TASKS) THEN counts
    ELSE IF ALL_TASKS[k] \in d.columns
         THEN LET after == StaffRowLoop(d, ALL_TASKS[k], 1, counts)
              IN  IF after = counts THEN StaffLoop(d, k + 1, counts)
                  ELSE StaffLoop(d, k + 1, after)
         ELSE StaffLoop(d, k + 1, counts)

RECURSIVE StaffLoopUnfiltered(_, _, _)
StaffLoopUnfiltered(d, k, counts) ==
    IF k > Len(ALL_TASKS) THEN counts
    ELSE IF ALL_TASKS[k] \in d.columns
         THEN LET after == StaffRowLoopUnfiltered(d, ALL_TASKS[k], 1, counts)
              IN  IF after = counts THEN StaffLoopUnfiltered(d, k + 1, counts)
                  ELSE StaffLoopUnfiltered(d, k + 1, after)
         ELSE StaffLoopUnfiltered(d, k + 1, counts)

staff_counts_unfiltered(d) == StaffLoopUnfiltered(d, 1, << >>)

\* staff_counts
staff_counts(d) == StaffLoop(d, 1, << >>)

\* sorted_staff
sorted_staff(counts) == FirstN(SortedByCountDesc(counts, 1, << >>), TopStaff)

\* (df[reviewed_col].str.upper() == token).sum()
CountReviewed(d, token) ==
    Cardinality({i \in 1..Len(d.rows) :
                    /\ Field(d.rows[i], REVIEWED_COL) # None
                    /\ Upper(Field(d.rows[i], REVIEWED_COL)[1]) = token})

\* the Shift Handoff Compliance panel: the counts, the rate and the elements
\* rendered under the subheader
handoff(d) ==
    IF REVIEWED_COL \notin d.columns
    THEN [computed |-> FALSE, reviewed_yes |-> 0, reviewed_no |-> 0, total |-> 0,
          rate |-> None, panel |-> << >>]
    ELSE
    LET reviewed_yes == CountReviewed(d, YES)
        reviewed_no == CountReviewed(d, NO)
        total == reviewed_yes + reviewed_no
    IN  [computed |-> TRUE, reviewed_yes |-> reviewed_yes, reviewed_no |-> reviewed_no,
         total |-> total,
         rate |-> IF total > 0 THEN Some(Ratio(reviewed_yes * 100, total)) ELSE None,
         panel |-> IF total > 0
                   THEN <<"metric: Handoff Reviews Completed",
                          IF reviewed_yes * 100 < 100 * total
                          THEN "warning: shifts did not review the prior checklist"
                          ELSE "success: All shifts reviewing prior checklists!">>
                   ELSE << >>]

---------------------------------------------------------------------------
(* One run of the script *)

\* nothing rendered yet
BlankView ==
    [kind |-> "none", messages |-> {}, refresh_button |-> FALSE,
     last_stats |-> None, missed_tasks |-> << >>,
     sorted_misses |-> << >>, staff_counts |-> << >>, sorted_staff |-> << >>,
     handoff |-> None]

\* load_data() raised: st.error, st.info, st.stop()
ErrorView ==
    [BlankView EXCEPT !.kind = "error",
                      !.messages = {"error: Error connecting to Google Sheets",
                                    "info: configure secrets.toml"}]

\* len(df) == 0: st.warning, st.stop()
EmptyView ==
    [BlankView EXCEPT !.kind = "empty",
                      !.messages = {"warning: No submissions yet"}]

\* tab 1 (tab 2 shows averages of the same per-row rates)
HandoffTab(d) ==
    [BlankView EXCEPT
        !.last_stats = Some(calculate_completion_stats(RowOf(d.rows[1], d.columns),
                                                       ALL_TASKS)),
        !.missed_tasks = missed_tasks(d, 1, << >>)]

\* len(df) < 2 in tab 3: st.info, st.stop()
InsufficientView(d) ==
    [HandoffTab(d) EXCEPT !.kind = "insufficient",
                          !.messages = {"info: Need more submissions to show trends"}]

\* the script ran to its last line: the three tabs, the footer and the button
FullView(d) ==
    LET misses == sorted_misses(d)
        counts == staff_counts(d)
    IN  [HandoffTab(d) EXCEPT
            !.kind = "full",
            !.messages = (IF misses = << >> THEN {"success: No missed tasks recorded!"}
                          ELSE {})
                         \cup (IF counts = << >>
                               THEN {"info: Staff completion data will appear"}
                               ELSE {})
                         \cup {"caption: Dashboard refreshes automatically every 60 seconds"},
            !.refresh_button = TRUE,
            !.sorted_misses = misses,
            !.staff_counts = counts,
            !.sorted_staff = sorted_staff(counts),
            !.handoff = Some(handoff(d))]

\* the script from `if len(df) == 0` to its end, on the DataFrame d
Render(d) ==
    IF Len(d.rows) = 0 THEN EmptyView
    ELSE IF Len(d.rows) < MinTrendRows THEN InsufficientView(d)
    ELSE FullView(d)

---------------------------------------------------------------------------
(* The parser applied to every short raw value *)

\* the characters raw values are drawn from: the keywords' letters, two lower-case
\* forms, the separator, a blank and a line break
Alphabet == {"Y", "E", "S", "N", "O", "A", "/", "-", " ", "\n", "y", "n"}

MaxLen == 4

StringsUpTo(n) == UNION {[1..k -> Alphabet] : k \in 0..n}

\* section 8 of the specification: the values its examples name
ParseExamples == {
    <<"Y","E","S"," ","-"," ","J","a","n","e"," ","D","o","e">>,
    <<"y","e","s","-","b","o","b">>,
    <<"Y","E","S"," ","-">>,
    <<"Y","E","S"," ","-"," ","A","\n","E">>,
    <<"J","a","n","e"," ","D","o","e">>,
    <<" ","n","/","a"," ">>,
    <<" ","\n"," ","\t"," ">> }

RawValues == {None} \cup {Some(s) : s \in StringsUpTo(MaxLen) \cup ParseExamples}

Statuses == {"completed", "missed", "na", "missing"}

Quiet ==
    /\ row = << >> /\ task_list = << >> /\ orig_task_list = << >>
    /\ stats = None /\ baseline = None

Dark ==
    /\ sheet = [header |-> {}, records |-> << >>] /\ cache = None /\ df = EmptyFrame
    /\ phase = "Idle" /\ clicked = FALSE /\ view = BlankView

InitParse ==
    /\ value \in RawValues
    /\ result = None
    /\ Quiet
    /\ Dark

\* one call of parse_task_status(value)
ParseTaskStatus ==
    /\ result = None
    /\ result' = Some(parse_task_status(value))
    /\ UNCHANGED <<value, row, task_list, orig_task_list, stats, baseline,
                   sheet, cache, df, phase, clicked, view>>

NextParse == ParseTaskStatus

SpecParse == InitParse /\ [][NextParse]_vars

---------------------------------------------------------------------------
(* Claims about parse_task_status, checked under SpecParse *)

IsString(v) == v # None

Blank(s) == \A i \in 1..Len(s) : s[i] \in Whitespace

StartsYes(s) ==
    Len(s) >= 3 /\ UpperChar(s[1]) = "Y" /\ UpperChar(s[2]) = "E" /\ UpperChar(s[3]) = "S"

StartsNo(s) ==
    Len(s) >= 2 /\ UpperChar(s[1]) = "N" /\ UpperChar(s[2]) = "O"

\* C1 as stated: the parser returns one of the four statuses, every non-empty
\* string resolves to completed, missed or na, and only an absent or empty value
\* yields missing.
C1_OnlyEmptyIsMissing ==
    result # None =>
        /\ result[1][1] \in Statuses
        /\ (IsString(value) /\ value[1] # << >>) => result[1][1] # "missing"
        /\ result[1][1] = "missing" => (value = None \/ value = Some(<< >>))

\* C1 as amended: the parser returns one of the four statuses with a staff that
\* is absent or a non-empty string, and the status is missing exactly when the
\* value is absent, empty or made of whitespace only.
C1_OnlyBlankIsMissing ==
    result # None =>
        /\ result[1][1] \in Statuses
        /\ result[1][2] = None \/ (Len(result[1][2]) = 1 /\ result[1][2][1] # << >>)
        /\ result[1][1] = "missing" <=> (value = None \/ Blank(value[1]))

\* a non-empty string of whitespace only has been parsed
C1_Witness ==
    /\ result # None
    /\ IsString(value) /\ value[1] # << >> /\ Blank(value[1])
    /\ result[1] = <<"missing", None>>

\* what remains of a trimmed value after "YES" and the optional separator
\* (whitespace, at most one hyphen, whitespace), trimmed
RestAfterYes(s) ==
    LET a == RunLength(s, 4, Whitespace)
        h == IF 4 + a <= Len(s) /\ s[4 + a] = "-" THEN 1 ELSE 0
        b == RunLength(s, 4 + a + h, Whitespace)
    IN  Strip(SubSeq(s, 4 + a + h + b, Len(s)))

\* C2: a value whose trimmed form starts with "YES" (any case) is completed, and
\* its staff is the text that remains after "YES" and the optional separator,
\* trimmed, or none when nothing remains.
C2_YesStaffIsRemainder ==
    (result # None /\ IsString(value) /\ StartsYes(Strip(value[1]))) =>
        result[1] = <<"completed",
                      IF RestAfterYes(Strip(value[1])) = << >> THEN None
                      ELSE Some(RestAfterYes(Strip(value[1])))>>

\* C3: a non-empty trimmed value that does not start with "YES" is missed with
\* no staff when it starts with "NO", else na with no staff when it is "N/A" or
\* "NA" as a whole, else completed with the whole trimmed value as the staff
\* (keywords in any case).
C3_RulesAfterYes ==
    (result # None /\ IsString(value) /\ ~Blank(value[1])
        /\ ~StartsYes(Strip(value[1]))) =>
        LET t == Strip(value[1])
        IN  result[1] =
                IF StartsNo(t) THEN <<"missed", None>>
                ELSE IF Upper(t) \in {N_A, NA} THEN <<"na", None>>
                ELSE <<"completed", Some(t)>>

\* a padded value that only starts like "NA" has been parsed: the last rule
\* takes its trimmed form as the staff
C3_Witness ==
    /\ result # None /\ IsString(value)
    /\ Len(Strip(value[1])) = 3 /\ Len(value[1]) = 4
    /\ StartsWith(Upper(Strip(value[1])), NA)
    /\ result[1] = <<"completed", Some(Strip(value[1]))>>

---------------------------------------------------------------------------
(* The aggregator applied to every small submission and task list *)

\* the task labels the task lists and submissions are drawn from
StatTasks == {"Meds Given", "Prepare Breakfast", "Clean Kitchen"}

MaxTaskListLen == 3

\* the raw values of a submission's cells: NaN, '', ' ', 'YES - A', 'NO', 'N/A'
CellValues == {None, Some(<< >>), Some(<<" ">>),
               Some(<<"Y","E","S"," ","-"," ","A">>),
               Some(<<"N","O">>), Some(<<"N","/","A">>)}

Submissions == UNION {[fields -> CellValues] : fields \in SUBSET StatTasks}

TaskLists == UNION {[1..k -> StatTasks] : k \in 0..MaxTaskListLen}

InitStats ==
    /\ value = None /\ result = None
    /\ row \in Submissions
    /\ task_list \in TaskLists
    /\ orig_task_list = task_list
    /\ stats = None /\ baseline = None
    /\ Dark

\* one call of calculate_completion_stats(row, task_list)
CalcStats ==
    /\ stats = None
    /\ stats' = Some(calculate_completion_stats(row, task_list))
    /\ baseline' = IF baseline = None THEN stats' ELSE baseline
    /\ UNCHANGED <<value, result, row, task_list, orig_task_list,
                   sheet, cache, df, phase, clicked, view>>

\* the caller makes two neighbours of the task list change places and calls
\* calculate_completion_stats(row, task_list) again
Reorder(i) ==
    /\ stats # None
    /\ i \in 1..(Len(task_list) - 1)
    /\ task_list' = [task_list EXCEPT ![i] = task_list[i + 1], ![i + 1] = task_list[i]]
    /\ stats' = Some(calculate_completion_stats(row, task_list'))
    /\ UNCHANGED <<value, result, row, orig_task_list, baseline,
                   sheet, cache, df, phase, clicked, view>>

NextStats ==
    \/ CalcStats
    \/ \E i \in 1..MaxTaskListLen : Reorder(i)

SpecStats == InitStats /\ [][NextStats]_vars

---------------------------------------------------------------------------
(* Claims about calculate_completion_stats, checked under SpecStats *)

\* the positions of the task list whose task is a field of the submission
Present == {i \in 1..Len(task_list) : task_list[i] \in DOMAIN row}

\* the status of each listed task present in the submission
StatusAt == [i \in Present |-> parse_task_status(row[task_list[i]])[1]]

\* how many listed tasks present in the submission have the given status
CountStatus(at, status) == Cardinality({i \in DOMAIN at : at[i] = status})

\* C4: rate = 100 * completed / (completed + missed + missing) over the listed
\* tasks, na tasks left out of the denominator; the rate is 0 when that sum is 0,
\* and 0 <= rate <= 100.
C4_RateExcludesNa ==
    stats # None =>
        LET rate == stats[1].rate
            at == StatusAt
            c == CountStatus(at, "completed")
            d == c + CountStatus(at, "missed") + CountStatus(at, "missing")
        IN  /\ rate.den > 0
            /\ d = 0 => rate.num = 0
            /\ rate.num * d = 100 * c * rate.den
            /\ 0 <= rate.num /\ rate.num <= 100 * rate.den

\* a submission with completed, missed and na tasks has been tallied
C4_Witness ==
    /\ stats # None
    /\ stats[1].completed > 0 /\ stats[1].missed > 0 /\ stats[1].na > 0

\* C5 as stated: the four counts add up to the number of listed tasks that are
\* fields of the submission, and missing counts exactly the present fields whose
\* value is empty (absent value or the empty string).
C5_MissingIsEmptyField ==
    stats # None =>
        /\ stats[1].completed + stats[1].missed + stats[1].na + stats[1].missing
               = Cardinality(Present)
        /\ stats[1].missing
               = Cardinality({i \in Present :
                                row[task_list[i]] \in {None, Some(<< >>)}})

\* C5 as amended: the four counts add up to the number of listed tasks that are
\* fields of the submission, and missing counts exactly the present fields whose
\* value is absent, empty or whitespace only.
C5_MissingIsBlankField ==
    stats # None =>
        /\ stats[1].completed + stats[1].missed + stats[1].na + stats[1].missing
               = Cardinality(Present)
        /\ stats[1].missing
               = Cardinality({i \in Present :
                                \/ row[task_list[i]] = None
                                \/ Blank(row[task_list[i]][1])})

\* a task list with a task the submission lacks and a task whose cell is a blank
\* has been tallied
C5_Witness ==
    /\ stats # None
    /\ Cardinality(Present) < Len(task_list)
    /\ \E i \in Present : row[task_list[i]] = Some(<<" ">>)
    /\ stats[1].missing > 0

\* C9: every count and the rate are the same for every order of the task list.
C9_OrderInvariant ==
    (stats # None /\ baseline # None) => stats = baseline

\* the tally of a reordered list, with an absent task in it, has been taken
C9_Witness ==
    /\ stats # None
    /\ task_list # orig_task_list
    /\ Cardinality(Present) < Len(task_list)
    /\ stats[1].completed > 0 /\ stats[1].missed > 0

---------------------------------------------------------------------------
(* The dashboard: the sheet, the cache and the script runs *)

S_YES_A == Some(<<"Y","E","S"," ","-"," ","A">>)

S_YES_YES == Some(<<"Y","E","S"," ","Y","E","S">>)

S_yes_E == Some(<<"y","e","s","-","E">>)

\* the checklist forms that are submitted: the raw values of the General,
\* Kitchen and Facility tasks and of the review question
Forms == {
    [general |-> S_YES_A, kitchen |-> Some(NO), facility |-> Some(N_A),
     review |-> Some(YES)],
    [general |-> Some(NO), kitchen |-> Some(NO), facility |-> Some(<<"E">>),
     review |-> Some(NO)],
    [general |-> S_YES_YES, kitchen |-> Some(YES), facility |-> Some(NO),
     review |-> Some(<<"y","e","s">>)],
    [general |-> Some(<< >>), kitchen |-> S_yes_E, facility |-> Some(<<" ">>),
     review |-> Some(<< >>)] }

MaxRows == 3

AllColumns == Range(ALL_TASKS) \cup {SUBMISSION_DATE, REVIEWED_COL}

\* the sheet's header row: every column, or one added later still lacking
Headers == {AllColumns, AllColumns \ {"Prepare Lunch"}, AllColumns \ {REVIEWED_COL}}

\* the sheet's records, appended in the order they were submitted
Records ==
    UNION {{[i \in 1..n |-> [date |-> i, form |-> f[i]]] : f \in [1..n -> Forms]} :
              n \in 0..MaxRows}

Init ==
    /\ value = None /\ result = None
    /\ Quiet
    /\ sheet \in {[header |-> h, records |-> r] : h \in Headers, r \in Records}
    /\ cache = None
    /\ df = EmptyFrame
    /\ phase = "Idle"
    /\ clicked = FALSE
    /\ view = BlankView

\* the page is opened: the script runs for the first time
OpenPage ==
    /\ phase = "Idle"
    /\ phase' = "Fetching"
    /\ clicked' = FALSE
    /\ UNCHANGED <<value, result, row, task_list, orig_task_list, stats, baseline,
                   sheet, cache, df, view>>

\* the page is reloaded in the browser: the script runs again
ReloadPage ==
    /\ phase \in {"Ready", "Error"}
    /\ phase' = "Fetching"
    /\ clicked' = FALSE
    /\ UNCHANGED <<value, result, row, task_list, orig_task_list, stats, baseline,
                   sheet, cache, df, view>>

\* the Refresh Now button, where it is rendered, is clicked: the script runs again
ClickRefresh ==
    /\ phase \in {"Ready", "Error"}
    /\ view.refresh_button
    /\ phase' = "Fetching"
    /\ clicked' = TRUE
    /\ UNCHANGED <<value, result, row, task_list, orig_task_list, stats, baseline,
                   sheet, cache, df, view>>

\* @st.cache_data(ttl=60): the entry expires
CacheExpires ==
    /\ cache # None
    /\ cache' = None
    /\ UNCHANGED <<value, result, row, task_list, orig_task_list, stats, baseline,
                   sheet, df, phase, clicked, view>>

\* the rest of a run whose load_data() returned d: the tabs, and on the last
\* line st.button, which is true in the run its click started
Finish(d, entry) ==
    /\ df' = d
    /\ view' = Render(d)
    /\ cache' = IF view'.refresh_button /\ clicked THEN None ELSE entry
    /\ phase' = "Ready"
    /\ clicked' = FALSE

\* a run whose load_data() is answered from the cache
RunCached ==
    /\ phase = "Fetching"
    /\ cache # None
    /\ \E d \in {cache[1]} : Finish(d, cache)
    /\ UNCHANGED <<value, result, row, task_list, orig_task_list, stats, baseline,
                   sheet>>

\* a run whose load_data() reads the sheet
RunFetched ==
    /\ phase = "Fetching"
    /\ cache = None
    /\ \E d \in {load_data(sheet)} : Finish(d, Some(d))
    /\ UNCHANGED <<value, result, row, task_list, orig_task_list, stats, baseline,
                   sheet>>

\* a run whose load_data() raises: nothing is cached, and the script stops
\* after its error messages
RunFailed ==
    /\ phase = "Fetching"
    /\ cache = None
    /\ df' = EmptyFrame
    /\ view' = ErrorView
    /\ phase' = "Error"
    /\ clicked' = FALSE
    /\ UNCHANGED <<value, result, row, task_list, orig_task_list, stats, baseline,
                   sheet, cache>>

Next ==
    \/ OpenPage
    \/ ReloadPage
    \/ ClickRefresh
    \/ CacheExpires
    \/ RunFailed
    \/ RunCached
    \/ RunFetched

Spec == Init /\ [][Next]_vars

---------------------------------------------------------------------------
(* Claims about the trends tab and the reload cycle, checked under Spec *)

\* the status of every task cell of the DataFrame whose column exists
StatusTable ==
    [i \in 1..Len(df.rows), t \in Range(ALL_TASKS) \cap df.columns |->
        parse_task_status(Field(df.rows[i], t))]

\* the position of each task in ALL_TASKS
TaskIndex == [t \in Range(ALL_TASKS) |-> CHOOSE k \in 1..Len(ALL_TASKS) : ALL_TASKS[k] = t]

\* for each task of ALL_TASKS, the number of submissions of the DataFrame whose
\* value for the task parses to missed
MissedIn ==
    [t \in Range(ALL_TASKS) |->
        IF t \in df.columns
        THEN Cardinality({i \in 1..Len(df.rows) :
                parse_task_status(Field(df.rows[i], t))[1] = "missed"})
        ELSE 0]

\* ranked is the first 10 of the tasks with a miss, by count descending and
\* among equal counts in task-list order, each with its count
IsRanking(ranked, misses) ==
    LET Precedes(t, u) ==
            \/ misses[t] > misses[u]
            \/ misses[t] = misses[u] /\ TaskIndex[t] < TaskIndex[u]
        listed == {ranked[k][1] : k \in 1..Len(ranked)}
        missed == {t \in Range(ALL_TASKS) : misses[t] > 0}
    IN  /\ listed \subseteq missed
        /\ \A k \in 1..Len(ranked) : ranked[k][2] = misses[ranked[k][1]]
        /\ \A j, k \in 1..Len(ranked) : j < k => Precedes(ranked[j][1], ranked[k][1])
        /\ \A t \in missed \ listed : \A u \in listed : Precedes(u, t)
        /\ Len(ranked) = IF Cardinality(missed) < 10 THEN Cardinality(missed) ELSE 10

\* C6: the ranking lists tasks of ALL_TASKS with the number of submissions in
\* which the task is missed, never a task with no miss, by count descending and
\* among equal counts in task-list order, and it is the first 10 of that order.
C6_MostMissedRanking ==
    view.kind = "full" =>
        \A misses \in {MissedIn} : IsRanking(view.sorted_misses, misses)

\* a ranking cut to 10 tasks whose first task is not the first missed task of the
\* task list, with equal and with different counts in it
C6_Witness ==
    /\ view.kind = "full"
    /\ Len(view.sorted_misses) = 10
    /\ Len(task_misses(df, 1, << >>)) > 10
    /\ view.sorted_misses[1][1] # task_misses(df, 1, << >>)[1][1]
    /\ view.sorted_misses[1][2] = view.sorted_misses[2][2]
    /\ view.sorted_misses[1][2] > view.sorted_misses[10][2]

\* C7: each staff name's count is the number of (submission, task) cells that
\* are completed with that trimmed staff; every such name other than "YES", "NO"
\* and "N/A" (any case) is counted, and none of these tokens is.
C7_StaffCounts ==
    view.kind = "full" =>
        LET table == StatusTable
            credited == {c \in DOMAIN table :
                            /\ table[c][1] = "completed"
                            /\ table[c][2] # None
                            /\ Strip(table[c][2][1]) # << >>}
            NameAt(c) == Strip(table[c][2][1])
            counts == view.staff_counts
        IN  /\ \A k \in 1..Len(counts) :
                  /\ counts[k][2] = Cardinality({c \in credited : NameAt(c) = counts[k][1]})
                  /\ counts[k][2] > 0
                  /\ Upper(counts[k][1]) \notin {YES, NO, N_A}
            /\ \A j, k \in 1..Len(counts) : j # k => counts[j][1] # counts[k][1]
            /\ \A c \in credited :
                  Upper(NameAt(c)) \notin {YES, NO, N_A} =>
                      \E k \in 1..Len(counts) : counts[k][1] = NameAt(c)

\* staff have been counted in a dataset with a cell whose staff is "YES" and
\* with two real names
C7_Witness ==
    /\ view.kind = "full"
    /\ \E c \in DOMAIN StatusTable : StatusTable[c] = <<"completed", Some(YES)>>
    /\ Len(view.staff_counts) >= 2

\* C8: yes_count and no_count are the numbers of submissions whose review field
\* is "YES" and "NO" in any case, total is their sum, the rate is
\* 100 * yes_count / total, and when total is 0 there is no rate and the panel
\* reports that there is no data.
C8_HandoffCompliance ==
    (view.kind = "full" /\ REVIEWED_COL \in df.columns) =>
        LET h == view.handoff[1]
            Answers(token) ==
                Cardinality({i \in 1..Len(df.rows) :
                    Upper(Field(df.rows[i], REVIEWED_COL)[1]) = token})
            yes_count == Answers(YES)
            no_count == Answers(NO)
        IN  /\ h.reviewed_yes = yes_count
            /\ h.reviewed_no = no_count
            /\ h.total = yes_count + no_count
            /\ yes_count + no_count > 0 =>
                  /\ h.rate # None
                  /\ h.rate[1].num * (yes_count + no_count) = 100 * yes_count * h.rate[1].den
            /\ yes_count + no_count = 0 => (h.rate = None /\ h.panel # << >>)

\* C10: a run that ended in Ready or in Error leaves the Refresh Now button on
\* the page.
C10_RetryAfterEveryRun ==
    phase \in {"Ready", "Error"} => view.refresh_button

====
